---- MODULE Spec2Model ----
(***************************************************************************)
(* Model of mindstorms.py: the host-side facade that drives a hub by       *)
(* sending Python source text to the hub's REPL and reading what it        *)
(* prints.  The model covers the call/eval bridge (Hub._eval, Hub._call,   *)
(* Hub._mcall) and the motor pairing handshake (Motor.pair, MotorPair).    *)
(*                                                                         *)
(* Text is modelled by TLA+ strings.  A dotted path such as                *)
(* 'hub.port.A.motor' is kept as the sequence of its components,           *)
(* <<"hub", "port", "A", "motor">>; PathText joins it with '.' into the    *)
(* text that is sent, and str.split('.') is the component sequence.        *)
(*                                                                         *)
(* The remote interpreter is the environment: what pair() and unpair()     *)
(* answer is chosen nondeterministically; what a snippet does to the       *)
(* remote namespace follows from the snippet's own text.                   *)
(***************************************************************************)
EXTENDS Integers, Sequences, FiniteSets, TLC

\* Number of ports (taken in the order A, B, C, ...) whose motors are used.
NumPorts == 2

\* Number of requests sent through the transport on one connection.
MaxRequests == 3

\* Number of requests sent where the MotorPair accessors and Hub.close are
\* followed as well.
MaxNodeRequests == 2

---------------------------------------------------------------------------
(* Facade tree: Ports.__init__, Port.__init__, Motor.__init__ *)

\* The ports a Ports node creates, in order.
PortLetters == <<"A", "B", "C", "D", "E", "F">>

Letters == {PortLetters[i] : i \in {j \in 1..Len(PortLetters) : j <= NumPorts}}

\* Ports(hub, 'hub.port') creates Port(hub, f'{me}.A') ...
PortPath(letter) == <<"hub", "port", letter>>

\* Port.__init__: self.motor = Motor(hub, f'{me}.motor')
MotorPath(letter) == PortPath(letter) \o <<"motor">>

\* The Motor nodes of the facade tree (a node is its _me).
Motors == {MotorPath(l) : l \in Letters}

RECURSIVE JoinWith(_, _)
\* sep.join(parts)
JoinWith(parts, sep) ==
    IF Len(parts) = 0 THEN ""
    ELSE IF Len(parts) = 1 THEN parts[1]
    ELSE parts[1] \o sep \o JoinWith(Tail(parts), sep)

\* The text of a path: its components joined by '.'.
PathText(path) == JoinWith(path, ".")

---------------------------------------------------------------------------
(* Transport replies *)

\* A reply of Pyboard.exec_: either the bytes printed, or an exception
\* raised by exec_ (the remote side raised, or the channel broke).
Reply(bytes) == [raised |-> FALSE, bytes |-> bytes]
ReplyRaised == [raised |-> TRUE, bytes |-> ""]

\* Tails a reply text can have after a prefix.
ReplyTails == {"", "1)", "1)\r\n", "\r\n"}

\* bytes.startswith(prefix)
StartsWith(b, prefix) == \E t \in ReplyTails : b = prefix \o t

---------------------------------------------------------------------------
(* Literal values: repr(...) on the host, eval(...) of what was printed *)

NoneValue == [t |-> "none", n |-> 0]
BoolValue(b) == [t |-> "bool", n |-> IF b THEN 1 ELSE 0]
IntValue(i) == [t |-> "int", n |-> i]

\* A facade node given as a value; me is the text of its _me.
NodeValue(me) == [t |-> "node", n |-> 0, me |-> me]

Digits == <<"0", "1", "2", "3", "4", "5", "6", "7", "8", "9">>

RECURSIVE NatText(_)
\* The decimal text of a natural number.
NatText(i) ==
    IF i < 10 THEN Digits[i + 1]
    ELSE NatText(i \div 10) \o Digits[(i % 10) + 1]

\* Variant: a facade node has no text of its own and is rendered like
\* any other object.
ReprNodeAsObject(v) ==
    CASE v.t = "none" -> "None"
      [] v.t = "bool" -> IF v.n = 1 THEN "True" ELSE "False"
      [] v.t = "int" -> IF v.n < 0 THEN "-" \o NatText(0 - v.n) ELSE NatText(v.n)
      [] v.t = "node" -> "<mindstorms.Motor object>"

\* repr(value) for the values used as arguments and results.
Repr(v) ==
    CASE v.t = "none" -> "None"
      [] v.t = "bool" -> IF v.n = 1 THEN "True" ELSE "False"
      [] v.t = "int" -> IF v.n < 0 THEN "-" \o NatText(0 - v.n) ELSE NatText(v.n)
      [] v.t = "node" -> v.me

\* The values whose printed text eval() is asked to read back.
LiteralValues ==
    {NoneValue, BoolValue(TRUE), BoolValue(FALSE)}
        \cup {IntValue(i) : i \in 0..9} \cup {IntValue(8294)}

\* White space that eval() ignores at the end of the source.
TrailingSpace == {"", "\r\n"}

\* The host-side outcome of a call: a returned value, a returned MotorPair
\* (h is its position in pairs), or a raised exception.
Returned(v) == [kind |-> "value", val |-> v, err |-> "", h |-> 0]
ReturnedPair(h) == [kind |-> "MotorPair", val |-> NoneValue, err |-> "", h |-> h]
Raised(err) == [kind |-> "raise", val |-> NoneValue, err |-> err, h |-> 0]
NoResult == [kind |-> "none", val |-> NoneValue, err |-> "", h |-> 0]

\* eval(b): the value the text is a literal of; otherwise eval raises.
EvalBytes(b) ==
    IF \E v \in LiteralValues, w \in TrailingSpace : b = Repr(v) \o w
    THEN Returned(CHOOSE v \in LiteralValues :
                      \E w \in TrailingSpace : b = Repr(v) \o w)
    ELSE Raised("SyntaxError")

---------------------------------------------------------------------------
(* The literal codec: repr(value) and eval(text), character by character *)

\* Longest string, byte string, list, tuple and dict that is rendered.
MaxLen == 2

\* Text as the sequence of its characters; At is the character at
\* position i, "" past the end.
At(cs, i) == IF i >= 1 /\ i <= Len(cs) THEN cs[i] ELSE ""

Abs(i) == IF i < 0 THEN 0 - i ELSE i

RECURSIVE Pow10(_)
Pow10(d) == IF d = 0 THEN 1 ELSE 10 * Pow10(d - 1)

\* A float m / 10^d (d >= 1; m not a multiple of 10 unless d = 1), the
\* floats inf and -inf, and nan.
FloatValue(m, d) == [t |-> "float", n |-> m, d |-> d]
InfValue(sign) == [t |-> "inf", n |-> sign]
NanValue == [t |-> "nan", n |-> 0]

\* A str as the sequence of its characters, a bytes as the sequence of
\* its byte values, a list and a tuple as the sequence of their items, a
\* dict as the sequence of its <<key, value>> items in insertion order.
StrValue(s) == [t |-> "str", n |-> 0, s |-> s]
BytesValue(s) == [t |-> "bytes", n |-> 0, s |-> s]
ListValue(s) == [t |-> "list", n |-> 0, s |-> s]
TupleValue(s) == [t |-> "tuple", n |-> 0, s |-> s]
DictValue(s) == [t |-> "dict", n |-> 0, s |-> s]

DigitChars == {Digits[i] : i \in 1..10}
DigitOf(c) == (CHOOSE i \in 1..10 : Digits[i] = c) - 1

HexDigits == <<"0", "1", "2", "3", "4", "5", "6", "7", "8", "9",
               "a", "b", "c", "d", "e", "f">>
HexChars == {HexDigits[i] : i \in 1..16}
HexOf(c) == (CHOOSE i \in 1..16 : HexDigits[i] = c) - 1

\* The printable ASCII characters used, with their codes.
AsciiCodes == {32, 34, 39, 97}
AsciiChar(b) ==
    CASE b = 32 -> " "
      [] b = 34 -> "\""
      [] b = 39 -> "'"
      [] b = 97 -> "a"
AsciiChars == {AsciiChar(b) : b \in AsciiCodes}
AsciiCode(c) == CHOOSE b \in AsciiCodes : AsciiChar(b) = c

RECURSIVE NatChars(_)
\* The decimal digits of a natural number.
NatChars(i) ==
    IF i < 10 THEN <<Digits[i + 1]>>
    ELSE Append(NatChars(i \div 10), Digits[(i % 10) + 1])

RECURSIVE FracChars(_, _)
\* The d digits of the fraction f / 10^d.
FracChars(f, d) ==
    IF d = 0 THEN <<>>
    ELSE Append(FracChars(f \div 10, d - 1), Digits[(f % 10) + 1])

SignChars(i) == IF i < 0 THEN <<"-">> ELSE <<>>

RECURSIVE JoinChars(_, _)
\* sep.join(parts), every text a sequence of characters.
JoinChars(parts, sep) ==
    IF Len(parts) = 0 THEN <<>>
    ELSE IF Len(parts) = 1 THEN parts[1]
    ELSE parts[1] \o sep \o JoinChars(Tail(parts), sep)

\* The quote repr encloses a str or bytes in: ' unless the text holds a '
\* and no ".
QuoteFor(s, single, double) ==
    IF (\E i \in 1..Len(s) : s[i] = single)
           /\ ~(\E i \in 1..Len(s) : s[i] = double)
    THEN double ELSE single

\* repr of one character of a str enclosed in q.
StrCharRepr(c, q) ==
    CASE c = "\\" -> <<"\\", "\\">>
      [] c = "\n" -> <<"\\", "n">>
      [] c = q -> <<"\\", q>>
      [] OTHER -> <<c>>

\* repr of one byte of a bytes enclosed in q.
ByteRepr(b, q) ==
    IF b = 92 THEN <<"\\", "\\">>
    ELSE IF b = 10 THEN <<"\\", "n">>
    ELSE IF b = 13 THEN <<"\\", "r">>
    ELSE IF b = 9 THEN <<"\\", "t">>
    ELSE IF b < 32 \/ b >= 127
    THEN <<"\\", "x", HexDigits[(b \div 16) + 1], HexDigits[(b % 16) + 1]>>
    ELSE IF b = q THEN <<"\\", AsciiChar(q)>>
    ELSE <<AsciiChar(b)>>

RECURSIVE ReprChars(_)
\* repr(value), as the sequence of its characters.
ReprChars(v) ==
    CASE v.t = "none" -> <<"N", "o", "n", "e">>
      [] v.t = "bool" -> IF v.n = 1 THEN <<"T", "r", "u", "e">>
                         ELSE <<"F", "a", "l", "s", "e">>
      [] v.t = "int" -> SignChars(v.n) \o NatChars(Abs(v.n))
      [] v.t = "float" ->
            SignChars(v.n) \o NatChars(Abs(v.n) \div Pow10(v.d)) \o <<".">>
                \o FracChars(Abs(v.n) % Pow10(v.d), v.d)
      [] v.t = "inf" -> SignChars(v.n) \o <<"i", "n", "f">>
      [] v.t = "nan" -> <<"n", "a", "n">>
      [] v.t = "str" ->
            LET q == QuoteFor(v.s, "'", "\"")
            IN  <<q>> \o JoinChars([i \in 1..Len(v.s) |-> StrCharRepr(v.s[i], q)],
                                   <<>>) \o <<q>>
      [] v.t = "bytes" ->
            LET q == QuoteFor(v.s, 39, 34)
            IN  <<"b", AsciiChar(q)>>
                    \o JoinChars([i \in 1..Len(v.s) |-> ByteRepr(v.s[i], q)], <<>>)
                    \o <<AsciiChar(q)>>
      [] v.t = "list" ->
            <<"[">> \o JoinChars([i \in 1..Len(v.s) |-> ReprChars(v.s[i])],
                                 <<",", " ">>) \o <<"]">>
      [] v.t = "tuple" ->
            <<"(">> \o JoinChars([i \in 1..Len(v.s) |-> ReprChars(v.s[i])],
                                 <<",", " ">>)
                \o (IF Len(v.s) = 1 THEN <<",">> ELSE <<>>) \o <<")">>
      [] v.t = "dict" ->
            <<"{">> \o JoinChars([i \in 1..Len(v.s) |->
                                     ReprChars(v.s[i][1]) \o <<":", " ">>
                                         \o ReprChars(v.s[i][2])],
                                 <<",", " ">>) \o <<"}">>

\* What a step of eval's reading gives: a value (val) and the position
\* after it, with the number of commas read where items were read; or the
\* exception raised.
Read(v, pos, commas) ==
    [ok |-> TRUE, val |-> v, pos |-> pos, commas |-> commas, err |-> ""]
ReadError(err) ==
    [ok |-> FALSE, val |-> NoneValue, pos |-> 0, commas |-> 0, err |-> err]

RECURSIVE SkipSpace(_, _)
\* The first position from i on that holds no white space.
SkipSpace(cs, i) ==
    IF At(cs, i) \in {" ", "\r", "\n"} THEN SkipSpace(cs, i + 1) ELSE i

RECURSIVE ReadDigits(_, _, _, _)
\* The run of digits from i on: its value after acc, and its length after
\* count.
ReadDigits(cs, i, acc, count) ==
    IF At(cs, i) \in DigitChars
    THEN ReadDigits(cs, i + 1, 10 * acc + DigitOf(At(cs, i)), count + 1)
    ELSE Read(IntValue(acc), i, count)

RECURSIVE Normalised(_, _)
\* m / 10^d with the trailing zeros of the fraction dropped.
Normalised(m, d) ==
    IF d > 1 /\ m % 10 = 0 THEN Normalised(m \div 10, d - 1)
    ELSE FloatValue(m, d)

\* A number: digits, and a point with digits after it for a float.
ReadNumber(cs, i) ==
    LET whole == ReadDigits(cs, i, 0, 0)
    IN  IF At(cs, whole.pos) = "."
        THEN LET frac == ReadDigits(cs, whole.pos + 1, 0, 0)
             IN  IF frac.commas = 0
                 THEN Read(FloatValue(10 * whole.val.n, 1), frac.pos, 0)
                 ELSE Read(Normalised(whole.val.n * Pow10(frac.commas)
                                          + frac.val.n, frac.commas),
                           frac.pos, 0)
        ELSE Read(whole.val, whole.pos, 0)

\* The letters names are made of.
NameChars == {"N", "o", "n", "e", "T", "r", "u", "F", "a", "l", "s", "i",
              "f", "b"}

RECURSIVE ReadName(_, _, _)
\* The run of letters from i on.
ReadName(cs, i, acc) ==
    IF At(cs, i) \in NameChars THEN ReadName(cs, i + 1, Append(acc, At(cs, i)))
    ELSE Read(StrValue(acc), i, 0)

\* A name: None, True and False are the constants; no other name that a
\* literal is printed with (inf, nan) is bound where eval is called.
NameValue(name, pos) ==
    CASE name = <<"N", "o", "n", "e">> -> Read(NoneValue, pos, 0)
      [] name = <<"T", "r", "u", "e">> -> Read(BoolValue(TRUE), pos, 0)
      [] name = <<"F", "a", "l", "s", "e">> -> Read(BoolValue(FALSE), pos, 0)
      [] OTHER -> ReadError("NameError")

RECURSIVE ReadQuoted(_, _, _, _, _)
\* The body of a str (bytes when isBytes) literal enclosed in q, from i on,
\* after the characters acc.  An escape that is none of the known ones
\* stands for itself; '\\xhh' is read in bytes only (no str rendered here
\* holds one).
ReadQuoted(cs, i, q, isBytes, acc) ==
    LET c == At(cs, i)
        e == At(cs, i + 1)
        Item(ch) == IF isBytes THEN AsciiCode(ch) ELSE ch
    IN  IF c = "" \/ c = "\n" \/ c = "\r" THEN ReadError("SyntaxError")
        ELSE IF c = q
        THEN Read(IF isBytes THEN BytesValue(acc) ELSE StrValue(acc), i + 1, 0)
        ELSE IF c # "\\"
        THEN ReadQuoted(cs, i + 1, q, isBytes, Append(acc, Item(c)))
        ELSE IF e = "n"
        THEN ReadQuoted(cs, i + 2, q, isBytes,
                        Append(acc, IF isBytes THEN 10 ELSE "\n"))
        ELSE IF e = "r"
        THEN ReadQuoted(cs, i + 2, q, isBytes,
                        Append(acc, IF isBytes THEN 13 ELSE "\r"))
        ELSE IF e = "t"
        THEN ReadQuoted(cs, i + 2, q, isBytes,
                        Append(acc, IF isBytes THEN 9 ELSE "\t"))
        ELSE IF e = "\\"
        THEN ReadQuoted(cs, i + 2, q, isBytes,
                        Append(acc, IF isBytes THEN 92 ELSE "\\"))
        ELSE IF e \in {"'", "\""}
        THEN ReadQuoted(cs, i + 2, q, isBytes, Append(acc, Item(e)))
        ELSE IF e = "x" /\ isBytes /\ At(cs, i + 2) \in HexChars
                    /\ At(cs, i + 3) \in HexChars
        THEN ReadQuoted(cs, i + 4, q, isBytes,
                        Append(acc, 16 * HexOf(At(cs, i + 2))
                                        + HexOf(At(cs, i + 3))))
        ELSE IF e = "x" THEN ReadError("SyntaxError")
        ELSE ReadQuoted(cs, i + 1, q, isBytes,
                        Append(acc, IF isBytes THEN 92 ELSE "\\"))

RECURSIVE ReadValue(_, _)
RECURSIVE ReadItems(_, _, _, _, _)
RECURSIVE ReadPairs(_, _, _)

\* -x for the value x that was read.
Negated(r) ==
    IF ~r.ok THEN r
    ELSE IF r.val.t \in {"int", "bool"} THEN Read(IntValue(0 - r.val.n), r.pos, 0)
    ELSE IF r.val.t = "float" THEN Read(FloatValue(0 - r.val.n, r.val.d), r.pos, 0)
    ELSE ReadError("TypeError")

\* The expression at i: a number, -x, a str, a bytes, a list, a tuple or
\* an expression in parentheses, a dict, or a name.
ReadValue(cs, i) ==
    LET c == At(cs, i)
    IN  CASE c \in DigitChars -> ReadNumber(cs, i)
          [] c = "-" -> Negated(ReadValue(cs, SkipSpace(cs, i + 1)))
          [] c \in {"'", "\""} -> ReadQuoted(cs, i + 1, c, FALSE, <<>>)
          [] c = "b" /\ At(cs, i + 1) \in {"'", "\""} ->
                ReadQuoted(cs, i + 2, At(cs, i + 1), TRUE, <<>>)
          [] c = "[" ->
                LET r == ReadItems(cs, i + 1, "]", <<>>, 0)
                IN  IF r.ok THEN Read(ListValue(r.val), r.pos, 0) ELSE r
          [] c = "(" ->
                LET r == ReadItems(cs, i + 1, ")", <<>>, 0)
                IN  IF ~r.ok THEN r
                    ELSE IF Len(r.val) = 1 /\ r.commas = 0
                    THEN Read(r.val[1], r.pos, 0)
                    ELSE Read(TupleValue(r.val), r.pos, 0)
          [] c = "{" ->
                LET r == ReadPairs(cs, i + 1, <<>>)
                IN  IF r.ok THEN Read(DictValue(r.val), r.pos, 0) ELSE r
          [] c \in NameChars /\ ~(c = "b" /\ At(cs, i + 1) \in {"'", "\""}) ->
                LET r == ReadName(cs, i, <<>>) IN NameValue(r.val.s, r.pos)
          [] OTHER -> ReadError("SyntaxError")

\* The items up to the closing bracket, from i on, after the items acc and
\* that many commas.
ReadItems(cs, i, close, acc, commas) ==
    LET j == SkipSpace(cs, i)
    IN  IF At(cs, j) = close THEN Read(acc, j + 1, commas)
        ELSE LET r == ReadValue(cs, j)
                 k == SkipSpace(cs, r.pos)
             IN  IF ~r.ok THEN r
                 ELSE IF At(cs, k) = ","
                 THEN ReadItems(cs, k + 1, close, Append(acc, r.val), commas + 1)
                 ELSE IF At(cs, k) = close
                 THEN Read(Append(acc, r.val), k + 1, commas)
                 ELSE ReadError("SyntaxError")

\* The 'key: value' items of a dict up to the closing brace, from i on,
\* after the items acc.
ReadPairs(cs, i, acc) ==
    LET j == SkipSpace(cs, i)
    IN  IF At(cs, j) = "}" THEN Read(acc, j + 1, 0)
        ELSE LET key == ReadValue(cs, j)
                 colon == SkipSpace(cs, key.pos)
                 val == ReadValue(cs, SkipSpace(cs, colon + 1))
                 k == SkipSpace(cs, val.pos)
             IN  IF ~key.ok THEN key
                 ELSE IF At(cs, colon) # ":" THEN ReadError("SyntaxError")
                 ELSE IF ~val.ok THEN val
                 ELSE IF At(cs, k) = ","
                 THEN ReadPairs(cs, k + 1, Append(acc, <<key.val, val.val>>))
                 ELSE IF At(cs, k) = "}"
                 THEN Read(Append(acc, <<key.val, val.val>>), k + 1, 0)
                 ELSE ReadError("SyntaxError")

\* eval(text): the value of the one expression the text holds, white
\* space around it ignored; otherwise the exception raised.
EvalChars(cs) ==
    LET r == ReadValue(cs, SkipSpace(cs, 1))
    IN  IF ~r.ok THEN Raised(r.err)
        ELSE IF SkipSpace(cs, r.pos) = Len(cs) + 1 THEN Returned(r.val)
        ELSE Raised("SyntaxError")

\* All sequences over a set of length at most MaxLen.
SeqsUpTo(S) == UNION {[1..k -> S] : k \in 0..MaxLen}

\* The characters strings are made of, and the byte values bytes are
\* made of.
StrAlphabet == {"a", "'", "\"", "\\", "\n"}
ByteAlphabet == {97, 39, 34, 92, 10, 255}

\* The values without items.
ScalarValues ==
    {NoneValue, BoolValue(TRUE), BoolValue(FALSE)}
        \cup {IntValue(i) : i \in {0, 7, 0 - 3, 8294}}
        \cup {FloatValue(15, 1), FloatValue(0 - 5, 1), FloatValue(20, 1),
              FloatValue(25, 2), FloatValue(0, 1)}
        \cup {InfValue(1), InfValue(0 - 1), NanValue}
        \cup {StrValue(s) : s \in SeqsUpTo(StrAlphabet)}
        \cup {BytesValue(s) : s \in SeqsUpTo(ByteAlphabet)}

\* The values lists, tuples and dicts are made of.
ItemValues ==
    {IntValue(0 - 3), FloatValue(15, 1), NoneValue, StrValue(<<"a", "'">>)}
KeyValues == {StrValue(<<"a">>), IntValue(7)}

\* Lists, tuples and dicts of scalars.
FlatValues ==
    {ListValue(s) : s \in SeqsUpTo(ItemValues)}
        \cup {TupleValue(s) : s \in SeqsUpTo(ItemValues)}
        \cup {DictValue(s) : s \in {p \in SeqsUpTo(KeyValues \X ItemValues) :
                  \A i, j \in 1..Len(p) : p[i][1] = p[j][1] => i = j}}

\* Lists, tuples and dicts of lists, tuples and dicts.
NestedItemValues ==
    {ListValue(<<>>), TupleValue(<<IntValue(7)>>),
     ListValue(<<NoneValue, BytesValue(<<255, 39>>)>>),
     DictValue(<<<<StrValue(<<"a">>), TupleValue(<<>>)>>>>)}
NestedValues ==
    {ListValue(s) : s \in SeqsUpTo(NestedItemValues)}
        \cup {TupleValue(s) : s \in SeqsUpTo(NestedItemValues)}
        \cup {DictValue(<<<<k, v>>>>) : k \in KeyValues, v \in NestedItemValues}

\* The values that are rendered and read back.
CodecValues == ScalarValues \cup FlatValues \cup NestedValues

---------------------------------------------------------------------------
(* Hub._eval, Hub._call, Hub._mcall *)

\* Hub._eval: the snippet handed to Pyboard.exec_
EvalRequest(expr) == "print(repr(" \o expr \o "))"

\* Variant: the request is sent again after the first reply.
EvalSendsTwice(expr) == <<EvalRequest(expr), EvalRequest(expr)>>

\* Hub._eval: the requests it hands to the transport, in order.
EvalSends(expr) == <<EvalRequest(expr)>>

\* Variant: every failure is wrapped in one exception type.
EvalResultWrapped(reply) ==
    IF reply.raised \/ EvalBytes(reply.bytes).kind = "raise"
    THEN Raised("RemoteEvaluationError")
    ELSE EvalBytes(reply.bytes)

\* Variant: an exception of the transport is dropped and None returned.
EvalResultDropsTransportError(reply) ==
    IF reply.raised THEN Returned(NoneValue) ELSE EvalBytes(reply.bytes)

\* Hub._eval: the result, given the transport's reply to the request.
EvalResult(reply) ==
    IF reply.raised THEN Raised("PyboardError") ELSE EvalBytes(reply.bytes)

\* [repr(arg) for arg in args]
ReprAll(args) == [i \in 1..Len(args) |-> Repr(args[i])]

\* [f'{k}={v!r}' for k, v in kwargs.items()]; kwargs is a sequence of <<k, v>>
ReprKw(kwargs) == [i \in 1..Len(kwargs) |-> kwargs[i][1] \o "=" \o Repr(kwargs[i][2])]

\* Variant: the keyword arguments before the positional ones.
CallExprKwFirst(name, args, kwargs) ==
    name \o "(" \o JoinWith(ReprKw(kwargs) \o ReprAll(args), ", ") \o ")"

\* Hub._call: the expression built from a name and the arguments.
CallExpr(name, args, kwargs) ==
    name \o "(" \o JoinWith(ReprAll(args) \o ReprKw(kwargs), ", ") \o ")"

\* Hub._mcall: the expression for name.method(...)
McallExpr(name, method, args, kwargs) ==
    CallExpr(name \o "." \o method, args, kwargs)

---------------------------------------------------------------------------
(* Motor.pair *)

\* self._me.split('.')[2]
PortLetterOf(me) == me[3]

\* Variant: the two letters in the other order.
PairNameSwapped(self, other) == "pair" \o PortLetterOf(other) \o PortLetterOf(self)

\* Variant: the name built from the calling motor's letter only.
PairNameOwnLetter(self, other) == "pair" \o PortLetterOf(self) \o PortLetterOf(self)

\* Variant: the name built from the other motor's letter only.
PairNameOtherLetter(self, other) ==
    "pair" \o PortLetterOf(other) \o PortLetterOf(other)

\* pair_name = f'pair{my_letter}{other_letter}'
PairName(self, other) == "pair" \o PortLetterOf(self) \o PortLetterOf(other)

\* The snippet Motor.pair hands to Pyboard.exec_
PairRequest(self, other) ==
    PairName(self, other) \o " = " \o PathText(self) \o ".pair("
        \o PathText(other) \o "); print(" \o PairName(self, other) \o ")"

\* Variant: binding and printing sent as two requests.
PairSendsSplit(self, other) ==
    <<PairName(self, other) \o " = " \o PathText(self) \o ".pair("
          \o PathText(other) \o ")",
      "print(" \o PairName(self, other) \o ")">>

\* Motor.pair: the requests it hands to the transport, in order.
PairSends(self, other) == <<PairRequest(self, other)>>

\* Variant: primary and secondary stored the other way round.
MotorPairNodeSwapped(me, primary, secondary) ==
    [me |-> me, primary |-> secondary, secondary |-> primary]

\* MotorPair.__init__
MotorPairNode(me, primary, secondary) ==
    [me |-> me, primary |-> primary, secondary |-> secondary]

\* Variant: the reply is never compared with b'False'.
PairOutcomeNoFalseTest(reply) ==
    IF reply.raised THEN "raise"
    ELSE IF reply.bytes = "None" THEN "None"
    ELSE IF ~StartsWith(reply.bytes, "MotorPair(") THEN "raise"
    ELSE "MotorPair"

\* Variant: b'None' is answered like b'False'.
PairOutcomeNoneAsFalse(reply) ==
    IF reply.raised THEN "raise"
    ELSE IF reply.bytes = "False" \/ reply.bytes = "None" THEN "False"
    ELSE IF ~StartsWith(reply.bytes, "MotorPair(") THEN "raise"
    ELSE "MotorPair"

\* Variant: no startswith test, every other reply makes a MotorPair.
PairOutcomeNoPrefixTest(reply) ==
    IF reply.raised THEN "raise"
    ELSE IF reply.bytes = "False" THEN "False"
    ELSE IF reply.bytes = "None" THEN "None"
    ELSE "MotorPair"

\* Motor.pair after the request: "False", "None", "MotorPair" (a node is
\* created and returned) or "raise".
PairOutcome(reply) ==
    IF reply.raised THEN "raise"
    ELSE IF reply.bytes = "False" THEN "False"
    ELSE IF reply.bytes = "None" THEN "None"
    ELSE IF ~StartsWith(reply.bytes, "MotorPair(") THEN "raise"
    ELSE "MotorPair"

\* What Motor.pair returns or raises; h is the position a new node would get.
PairResult(reply, h) ==
    CASE PairOutcome(reply) = "False" -> Returned(BoolValue(FALSE))
      [] PairOutcome(reply) = "None" -> Returned(NoneValue)
      [] PairOutcome(reply) = "MotorPair" -> ReturnedPair(h)
      [] OTHER -> Raised(IF reply.raised THEN "PyboardError" ELSE "RuntimeError")

---------------------------------------------------------------------------
(* MotorPair.unpair *)

\* Variant: unpair called on the primary motor's path.
UnpairExprOnPrimary(pair) == McallExpr(PathText(pair.primary), "unpair", <<>>, <<>>)

\* MotorPair.unpair: self._hub._mcall(self._me, 'unpair')
UnpairExpr(pair) == McallExpr(pair.me, "unpair", <<>>, <<>>)

\* Variant: primary() gives the motor that was the parameter of pair.
PrimaryGivesSecondary(pair) == pair.secondary

\* MotorPair.primary / MotorPair.secondary
Primary(pair) == pair.primary
Secondary(pair) == pair.secondary

\* MotorPair.primary, MotorPair.secondary: the requests they hand to the
\* transport: none.
AccessorSends == <<>>

---------------------------------------------------------------------------
(* The other MotorPair operations: float, brake, hold, pwm, ... *)

\* The operations modelled, each with the arguments it is called with:
\* float() and pwm(pwm_0, pwm_1).
PairOps ==
    {[method |-> "float", args |-> <<>>],
     [method |-> "pwm", args |-> <<IntValue(5), IntValue(0 - 5)>>]}

\* Variant: the operation called on the primary motor's path.
PairOpExprOnPrimary(pair, method, args) ==
    McallExpr(PathText(pair.primary), method, args, <<>>)

\* MotorPair.float, MotorPair.pwm, ...: self._hub._mcall(self._me, method, ...)
PairOpExpr(pair, method, args) == McallExpr(pair.me, method, args, <<>>)

---------------------------------------------------------------------------
(* Hub.close *)

\* Variant: close unpairs every MotorPair it is given before closing.
CloseSendsUnpairs(livePairs) ==
    [i \in 1..Len(livePairs) |-> EvalRequest(UnpairExpr(livePairs[i]))]

\* Hub.close: the requests it hands to Pyboard.exec_ before
\* self._pb.close(), given the MotorPair nodes still paired: none.
CloseSends(livePairs) == <<>>

---------------------------------------------------------------------------
(* The remote interpreter, as far as the snippets above determine it *)

\* Every name Motor.pair can bind remotely.
PairNames == {PairName(a, b) : a \in Motors, b \in Motors}

\* What a name is bound to in the remote session: nothing, the False or
\* None that pair() returned, a pair object, or a pair object on which
\* unpair() has succeeded.
RemoteValues == {"unbound", "False", "None", "live", "freed"}

\* What 'name = X.pair(Y); print(name)' can do remotely: pair() returns a
\* value, which is bound to the name and printed (print may end the line
\* with '\r\n'), or it raises and the name keeps its binding.
PairAnswers ==
    {[value |-> "False", reply |-> Reply("False")],
     [value |-> "False", reply |-> Reply("False\r\n")],
     [value |-> "None", reply |-> Reply("None")],
     [value |-> "live", reply |-> Reply("MotorPair(1)")],
     [value |-> "keep", reply |-> ReplyRaised]}

\* What 'print(repr(name.unpair()))' can do remotely, given the binding of
\* name: a pair object answers True (and is freed) or False; a freed pair
\* object answers False or raises; False, None and an unbound name have no
\* unpair, so the snippet raises.
UnpairAnswers(bound) ==
    CASE bound = "live" ->
            {[value |-> "freed", reply |-> Reply("True")],
             [value |-> "live", reply |-> Reply("False")]}
      [] bound = "freed" ->
            {[value |-> "freed", reply |-> Reply("False")],
             [value |-> "freed", reply |-> ReplyRaised]}
      [] OTHER -> {[value |-> bound, reply |-> ReplyRaised]}

\* What 'print(repr(name.float()))' and the like can do remotely, given
\* the binding of name: a pair object runs the operation and answers None,
\* or raises; what a freed pair object does is not defined, it answers
\* None or raises; False, None and an unbound name have no such method,
\* so the snippet raises.  The binding stays as it is.
PairOpAnswers(bound) ==
    IF bound \in {"live", "freed"}
    THEN {[value |-> bound, reply |-> Reply("None")],
          [value |-> bound, reply |-> ReplyRaised]}
    ELSE {[value |-> bound, reply |-> ReplyRaised]}

\* After self._pb.close() the serial port is closed: Pyboard.exec_ raises
\* and the remote session is not reached.
ClosedAnswers == {[value |-> "keep", reply |-> ReplyRaised]}

---------------------------------------------------------------------------
(* The texts above, tabulated: each depends on the nodes alone *)

\* Every MotorPair node Motor.pair can create.
PairNodes == {MotorPairNode(PairName(a, b), a, b) : a \in Motors, b \in Motors}

PairNameOf == [a \in Motors, b \in Motors |-> PairName(a, b)]

PairSendsOf == [a \in Motors, b \in Motors |-> PairSends(a, b)]

UnpairSendsOf == [p \in PairNodes |-> EvalSends(UnpairExpr(p))]

PairOpSendsOf ==
    [p \in PairNodes, op \in PairOps |->
        EvalSends(PairOpExpr(p, op.method, op.args))]

---------------------------------------------------------------------------
(* Facade methods: Battery, Display, Motor, Hub.power_off, Hub.led *)

\* Hub.__init__: Battery(self, 'hub.battery'), Display(self, 'hub.display')
BatteryPath == <<"hub", "battery">>
DisplayPath == <<"hub", "display">>

\* The text of every Motor node's _me.
MotorText == [m \in Motors |-> PathText(m)]

\* The calls of facade methods of the form
\*     return self._hub._mcall(self._me, '<method>', *args, **kwargs)
\* that are modelled, each with its node, method and arguments:
\* battery.voltage(), display.pixel(2, 3, 9), display.pixel(2, 3),
\* motor.run_for_degrees(90, 50, stop=1, acceleration=100) with the keywords
\* in either order, motor.run_for_time(1000, speed=50), and motor.pwm(node)
\* with a Motor node as the value.
FacadeCalls ==
    {[node |-> PathText(BatteryPath), method |-> "voltage",
      args |-> <<>>, kwargs |-> <<>>],
     [node |-> PathText(DisplayPath), method |-> "pixel",
      args |-> <<IntValue(2), IntValue(3), IntValue(9)>>, kwargs |-> <<>>],
     [node |-> PathText(DisplayPath), method |-> "pixel",
      args |-> <<IntValue(2), IntValue(3)>>, kwargs |-> <<>>]}
    \cup {[node |-> MotorText[m], method |-> "run_for_degrees",
           args |-> <<IntValue(90), IntValue(50)>>,
           kwargs |-> <<<<"stop", IntValue(1)>>,
                        <<"acceleration", IntValue(100)>>>>] : m \in Motors}
    \cup {[node |-> MotorText[m], method |-> "run_for_degrees",
           args |-> <<IntValue(90), IntValue(50)>>,
           kwargs |-> <<<<"acceleration", IntValue(100)>>,
                        <<"stop", IntValue(1)>>>>] : m \in Motors}
    \cup {[node |-> MotorText[m], method |-> "run_for_time",
           args |-> <<IntValue(1000)>>,
           kwargs |-> <<<<"speed", IntValue(0 - 50)>>>>] : m \in Motors}
    \cup {[node |-> MotorText[m], method |-> "pwm",
           args |-> <<NodeValue(MotorText[o])>>, kwargs |-> <<>>] :
               m \in Motors, o \in Motors}

\* The facade call's expression: _mcall(self._me, '<method>', ...)
FacadeExpr(c) == McallExpr(c.node, c.method, c.args, c.kwargs)

\* Hub.power_off: the argument lists modelled, power_off(timeout=0) and
\* power_off(fast=True, restart=False).
PowerOffCalls ==
    {[node |-> "hub", method |-> "power_off", args |-> <<>>,
      kwargs |-> <<<<"timeout", IntValue(0)>>>>],
     [node |-> "hub", method |-> "power_off", args |-> <<>>,
      kwargs |-> <<<<"fast", BoolValue(TRUE)>>,
                   <<"restart", BoolValue(FALSE)>>>>]}

\* Hub.power_off: self._call('hub.power_off', *args, **kwargs)
PowerOffExpr(c) == CallExpr("hub.power_off", c.args, c.kwargs)

\* Hub.led: the argument lists modelled, led(3) and led(255, 0, 9).
LedCalls ==
    {[node |-> "hub", method |-> "led", args |-> <<IntValue(3)>>,
      kwargs |-> <<>>],
     [node |-> "hub", method |-> "led",
      args |-> <<IntValue(255), IntValue(0), IntValue(9)>>, kwargs |-> <<>>]}

\* Hub.led: self._call('hub.led', *args, **kwargs)
LedExpr(c) == CallExpr("hub.led", c.args, c.kwargs)

\* Variant: a failure of the call is dropped like its value.
LedResultSwallows(reply) == Returned(NoneValue)

\* Hub.led has no return statement: what _call returns is dropped and the
\* method returns None; what _call raises leaves the method.
LedResult(reply) ==
    IF EvalResult(reply).kind = "raise" THEN EvalResult(reply)
    ELSE Returned(NoneValue)

\* Display.rotation: the rotation values modelled.
RotationCalls ==
    {[node |-> PathText(DisplayPath), method |-> "rotation",
      args |-> <<IntValue(r)>>, kwargs |-> <<>>] : r \in {90, 180}}

\* Display.rotation: self._hub._mcall(self._me, rotation).  The rotation
\* value is handed over as the method; f'{name}.{method}' formats it as
\* its decimal text, and no argument is left.
RotationExpr(c) == McallExpr(c.node, Repr(c.args[1]), <<>>, <<>>)

\* What 'print(repr(<expression>))' can make the transport answer: the
\* text printed (print may end the line with '\r\n'), which is a literal
\* or is not, or an exception when the remote side raises.
FacadeAnswers ==
    {Reply("8294"), Reply("8294\r\n"), Reply("None"), Reply("9"),
     Reply("<Motor object at 20004d80>"), ReplyRaised}

\* hub.led(...) returns None remotely, or raises.
LedAnswers == {Reply("None"), Reply("None\r\n"), ReplyRaised}

\* 'hub.display.90()' is no expression of the remote language: the remote
\* side raises.
RotationAnswers == {ReplyRaised}

FacadeSendsOf == [c \in FacadeCalls |-> EvalSends(FacadeExpr(c))]

PowerOffSendsOf == [c \in PowerOffCalls |-> EvalSends(PowerOffExpr(c))]

LedSendsOf == [c \in LedCalls |-> EvalSends(LedExpr(c))]

RotationSendsOf == [c \in RotationCalls |-> EvalSends(RotationExpr(c))]

---------------------------------------------------------------------------
(* find_device *)

\* USB_VID = 0x0694, USB_PID = 0x0010
USB_VID == 1684
USB_PID == 16

\* Most ports that comports() lists.
MaxComports == 3

\* The vendor and product identifiers a listed port can have: the fixed
\* ones, each other's, and 0.
VidValues == {USB_VID, USB_PID, 0}
PidValues == {USB_PID, USB_VID, 0}

\* The device address of the i-th port listed.
DeviceNames == <<"/dev/ttyACM0", "/dev/ttyACM1", "/dev/ttyACM2",
                 "/dev/ttyACM3", "/dev/ttyACM4">>

\* What comports() can list: up to MaxComports ports, each with its vid,
\* pid and device.
PortLists ==
    UNION {[1..k -> [vid : VidValues, pid : PidValues]] : k \in 0..MaxComports}

ListedPorts(l) ==
    [i \in 1..Len(l) |->
        [vid |-> l[i].vid, pid |-> l[i].pid, device |-> DeviceNames[i]]]

RECURSIVE FindDeviceFromEnd(_, _)
\* Variant: the ports are gone through from the last to the first.
FindDeviceFromEnd(ports, i) ==
    IF Len(ports) - i + 1 < 1 THEN Raised("RuntimeError")
    ELSE IF ports[Len(ports) - i + 1].vid = USB_VID
                /\ ports[Len(ports) - i + 1].pid = USB_PID
    THEN Returned(ports[Len(ports) - i + 1].device)
    ELSE FindDeviceFromEnd(ports, i + 1)

RECURSIVE FindDeviceFrom(_, _)
\* find_device: the loop over comports() from the i-th port on; the else
\* branch of the loop raises when the loop ends without a return.
FindDeviceFrom(ports, i) ==
    IF i > Len(ports) THEN Raised("RuntimeError")
    ELSE IF ports[i].vid = USB_VID /\ ports[i].pid = USB_PID
    THEN Returned(ports[i].device)
    ELSE FindDeviceFrom(ports, i + 1)

---------------------------------------------------------------------------
(* The round trip of a request: Pyboard.exec_ as Hub._eval and Motor.pair
   call it *)

\* Variant: the request is written and the caller goes on without the
\* reply (Pyboard.exec_raw_no_follow).
ExecReturnsAtOnce == FALSE

\* self._pb.exec_(...) returns when the reply has been read: the caller
\* is held until then.
ExecBlocks == TRUE

\* The calls whose round trip is followed, each with the one request it
\* hands to exec_: the facade methods through Hub._eval, and Motor.pair.
RoundTripCalls ==
    {[kind |-> "eval", req |-> FacadeSendsOf[c][1]] : c \in FacadeCalls}
        \cup {[kind |-> "pair", req |-> PairSendsOf[a, b][1]] :
                  a \in Motors, b \in Motors}

\* What the transport can answer.
RoundTripAnswers == FacadeAnswers \cup {a.reply : a \in PairAnswers}

---------------------------------------------------------------------------
(* Hub.__init__ *)

\* Variant: the import statement is executed before raw input mode is
\* entered.
SetupCallsImportFirst ==
    <<"Pyboard(device)",
      "exec_('import hub; Image = hub.Image; import os')",
      "enter_raw_repl()">>

\* The calls Hub.__init__ makes on the transport, in order: it opens it,
\* enters raw input mode, and executes the import statement.
SetupCalls ==
    <<"Pyboard(device)",
      "enter_raw_repl()",
      "exec_('import hub; Image = hub.Image; import os')">>

\* How Hub.__init__ can end, with the number of transport calls made by
\* then: find_device raises, one of the three calls raises, or all return
\* and the nodes are created.
SetupOutcomes ==
    {[state |-> "failed", made |-> 0], [state |-> "failed", made |-> 1],
     [state |-> "failed", made |-> 2], [state |-> "failed", made |-> 3],
     [state |-> "ready", made |-> 3]}

---------------------------------------------------------------------------
(* Image *)

\* The brightness values pixels are drawn from.
Brightness == {0, 9}

\* The lists Image(list) is given: rows of pixels, of any lengths.
ImageValues == SeqsUpTo(SeqsUpTo(Brightness))

\* The distances an image is shifted by.
ShiftValues == -2..2

ImageResult(pixels) == [kind |-> "image", pixels |-> pixels, err |-> ""]
ImageRaised(err) == [kind |-> "raise", pixels |-> <<>>, err |-> err]
NoImageResult == [kind |-> "none", pixels |-> <<>>, err |-> ""]

\* Image.shift(x, y): the width is the length of the first row, which an
\* image of no rows does not have; a row shorter than the position read
\* from it has no such pixel.
Shift(pixels, x, y) ==
    IF Len(pixels) = 0 THEN ImageRaised("IndexError")
    ELSE LET w == Len(pixels[1])
             h == Len(pixels)
             Inside(x0, y0) == /\ 0 <= y0 + y /\ y0 + y < h
                               /\ 0 <= x0 + x /\ x0 + x < w
         IN  IF \E y0 \in 0..(h - 1), x0 \in 0..(w - 1) :
                    /\ Inside(x0, y0)
                    /\ x0 + x >= Len(pixels[y0 + y + 1])
             THEN ImageRaised("IndexError")
             ELSE ImageResult(
                      [y0 \in 1..h |->
                          [x0 \in 1..w |->
                              IF Inside(x0 - 1, y0 - 1)
                              THEN pixels[y0 + y][x0 + x]
                              ELSE 0]])

\* shift_left, shift_right, shift_up and shift_down in terms of shift.
ShiftDirections == {"shift_left", "shift_right", "shift_up", "shift_down"}
ShiftX(op, n) ==
    IF op = "shift_left" THEN n ELSE IF op = "shift_right" THEN 0 - n ELSE 0
ShiftY(op, n) ==
    IF op = "shift_up" THEN n ELSE IF op = "shift_down" THEN 0 - n ELSE 0

RECURSIVE RowChars(_)
\* ''.join(str(x) for x in row)
RowChars(row) ==
    IF Len(row) = 0 THEN <<>> ELSE NatChars(Head(row)) \o RowChars(Tail(row))

RECURSIVE RowStringUnseparated(_)
\* Variant: the rows are joined with nothing after them.
RowStringUnseparated(pixels) ==
    IF Len(pixels) = 0 THEN <<>>
    ELSE RowChars(Head(pixels)) \o RowStringUnseparated(Tail(pixels))

RECURSIVE RowString(_)
\* The row string of Image.__repr__: every row followed by ':'.
RowString(pixels) ==
    IF Len(pixels) = 0 THEN <<>>
    ELSE RowChars(Head(pixels)) \o <<":">> \o RowString(Tail(pixels))

RECURSIVE SplitChars(_, _, _)
\* s.split(sep), after the part cur that has been read.
SplitChars(cs, sep, cur) ==
    IF Len(cs) = 0 THEN <<cur>>
    ELSE IF Head(cs) = sep THEN <<cur>> \o SplitChars(Tail(cs), sep, <<>>)
    ELSE SplitChars(Tail(cs), sep, Append(cur, Head(cs)))

WhiteSpace == {" ", "\t", "\n", "\r"}

RECURSIVE StripLeft(_)
StripLeft(cs) ==
    IF Len(cs) > 0 /\ Head(cs) \in WhiteSpace THEN StripLeft(Tail(cs)) ELSE cs

RECURSIVE StripRight(_)
StripRight(cs) ==
    IF Len(cs) > 0 /\ cs[Len(cs)] \in WhiteSpace
    THEN StripRight(SubSeq(cs, 1, Len(cs) - 1))
    ELSE cs

\* row.strip()
Strip(cs) == StripRight(StripLeft(cs))

\* Image._parse_string(s): the rows between ':' (between newlines when s
\* has no ':'), stripped, the empty ones left out, every character read
\* as an integer.
ParseString(cs) ==
    LET rows == IF \E i \in 1..Len(cs) : cs[i] = ":"
                THEN SplitChars(cs, ":", <<>>)
                ELSE SplitChars(cs, "\n", <<>>)
        kept == SelectSeq([i \in 1..Len(rows) |-> Strip(rows[i])],
                          LAMBDA row : Len(row) > 0)
    IN  IF \E i \in 1..Len(kept) : \E j \in 1..Len(kept[i]) :
               kept[i][j] \notin DigitChars
        THEN ImageRaised("ValueError")
        ELSE IF \E i \in 1..Len(kept) : Len(kept[i]) # Len(kept[1])
        THEN ImageRaised("ValueError")
        ELSE ImageResult([i \in 1..Len(kept) |->
                             [j \in 1..Len(kept[i]) |-> DigitOf(kept[i][j])]])

---------------------------------------------------------------------------
(* State *)

VARIABLES
    pairs,      \* the MotorPair nodes created so far, in order of creation
    unpaired,   \* positions in pairs of the nodes whose unpair() returned True
    pairCalls,  \* the pair calls made so far: motors and chosen name
    nsent,      \* number of requests handed to Pyboard.exec_ so far
    lastReq,    \* the text of the last request
    lastReply,  \* the transport's reply to it
    call,       \* the last facade call and what held when it was made
    result,     \* what that call returned or raised
    remoteNs,   \* the remote session's binding of each pair name
    open,       \* the connection has not been closed
    fcall,      \* node, method and arguments of the last forwarded call
    codec,      \* a value, the text repr gave for it, what eval read back
    disc,       \* the ports comports() lists and what find_device made of them
    img,        \* an Image, the operation applied to it and what it gave
    conn,       \* the transport calls Hub.__init__ has made, and its outcome
    rt          \* the facade call in progress and the requests in flight

\* The variables of the pure functions and of the connection.
otherVars == <<disc, img, conn, rt>>

\* The variables of a constructed Hub and its nodes.
hubVars == <<pairs, unpaired, pairCalls, nsent, lastReq, lastReply, call,
             result, remoteNs, open, fcall>>

vars == <<pairs, unpaired, pairCalls, nsent, lastReq, lastReply, call, result,
          remoteNs, open, fcall, codec, disc, img, conn, rt>>

\* The MotorPair nodes that were paired and have not been unpaired since.
Live == {h \in 1..Len(pairs) : h \notin unpaired}

\* A motor belongs to a live MotorPair.
InLivePair(m) == \E h \in Live : pairs[h].primary = m \/ pairs[h].secondary = m

\* No call made yet.  A call records its operation, its arguments (self and
\* other for pair, the node's position h for unpair), the name pair chose,
\* and what held just before it: requests sent, nodes created, whether the
\* motors were in a live pair, whether an earlier pair call chose the name,
\* whether an earlier pair call was made on the same two motors in order.
NoCall ==
    [op |-> "none", self |-> <<>>, other |-> <<>>, h |-> 0, name |-> "",
     sentBefore |-> 0, pairsBefore |-> 0,
     selfInPair |-> FALSE, otherInPair |-> FALSE,
     nameUsedBefore |-> FALSE, portsUsedBefore |-> FALSE]

\* No forwarded call made yet.
NoFcall == [node |-> "", method |-> "", args |-> <<>>, kwargs |-> <<>>]

\* No value rendered.
NoCodec ==
    [phase |-> "none", value |-> NoneValue, text |-> <<>>, result |-> NoResult]

\* Hub.__init__ done: the facade tree exists, no pair has been made.
InitHub ==
    /\ pairs = <<>>
    /\ unpaired = {}
    /\ pairCalls = {}
    /\ nsent = 0
    /\ lastReq = ""
    /\ lastReply = Reply("")
    /\ call = NoCall
    /\ result = NoResult
    /\ remoteNs = [n \in PairNames |-> "unbound"]
    /\ open = TRUE
    /\ fcall = NoFcall

\* No port listed, no Image made, no facade call in progress.
NoDisc == [phase |-> "none", ports |-> <<>>, result |-> NoResult]
NoImg ==
    [phase |-> "none", pixels |-> <<>>, op |-> "", x |-> 0, y |-> 0,
     text |-> <<>>, out |-> NoImageResult]
NoRt ==
    [phase |-> "idle", kind |-> "", req |-> "", inflight |-> 0, started |-> 0,
     reply |-> Reply(""), result |-> NoResult]

\* Hub.__init__ has returned: the transport is open, in raw input mode,
\* and the import statement has been executed.
Connected == [state |-> "ready", calls |-> SetupCalls]

\* No Hub constructed.
NoConn == [state |-> "none", calls |-> <<>>]

\* Nothing but the Hub and its nodes in use.
InitOther == disc = NoDisc /\ img = NoImg /\ conn = Connected /\ rt = NoRt

Init == InitHub /\ codec = NoCodec /\ InitOther

\* self.pair(other_motor), the remote side answering ans.
Pair(self, other, ans) ==
    LET name == PairNameOf[self, other]
        sends == PairSendsOf[self, other]
    IN  /\ nsent < MaxRequests
        /\ call' = [op |-> "pair", self |-> self, other |-> other, h |-> 0,
                    name |-> name,
                    sentBefore |-> nsent, pairsBefore |-> Len(pairs),
                    selfInPair |-> InLivePair(self),
                    otherInPair |-> InLivePair(other),
                    nameUsedBefore |-> \E c \in pairCalls : c.name = name,
                    portsUsedBefore |->
                        \E c \in pairCalls : c.self = self /\ c.other = other]
        /\ pairCalls' = pairCalls \cup
               {[self |-> self, other |-> other, name |-> name]}
        /\ nsent' = nsent + Len(sends)
        /\ lastReq' = sends[Len(sends)]
        /\ lastReply' = ans.reply
        /\ remoteNs' = IF ans.value = "keep" THEN remoteNs
                       ELSE [remoteNs EXCEPT ![name] = ans.value]
        /\ result' = PairResult(ans.reply, Len(pairs) + 1)
        /\ pairs' = IF PairOutcome(ans.reply) = "MotorPair"
                    THEN Append(pairs, MotorPairNode(name, self, other))
                    ELSE pairs
        /\ fcall' = NoFcall
        /\ UNCHANGED <<unpaired, open, codec, otherVars>>

\* Variant: an unpair() that returns True drops the node's motors.
UnpairDropsMotors(h, ans) ==
    LET sends == UnpairSendsOf[pairs[h]]
    IN  /\ nsent < MaxRequests
        /\ call' = [NoCall EXCEPT !.op = "unpair", !.h = h,
                                  !.sentBefore = nsent,
                                  !.pairsBefore = Len(pairs)]
        /\ nsent' = nsent + Len(sends)
        /\ lastReq' = sends[Len(sends)]
        /\ lastReply' = ans.reply
        /\ remoteNs' = IF ans.value = "keep" THEN remoteNs
                       ELSE [remoteNs EXCEPT ![pairs[h].me] = ans.value]
        /\ result' = EvalResult(ans.reply)
        /\ unpaired' = IF EvalResult(ans.reply) = Returned(BoolValue(TRUE))
                       THEN unpaired \cup {h}
                       ELSE unpaired
        /\ pairs' = IF EvalResult(ans.reply) = Returned(BoolValue(TRUE))
                    THEN [pairs EXCEPT ![h].primary = <<>>,
                                       ![h].secondary = <<>>]
                    ELSE pairs
        /\ fcall' = [NoFcall EXCEPT !.node = pairs[h].me, !.method = "unpair"]
        /\ UNCHANGED <<pairCalls, open, codec, otherVars>>

\* pairs[h].unpair(), the remote side answering ans.
Unpair(h, ans) ==
    LET sends == UnpairSendsOf[pairs[h]]
    IN  /\ nsent < MaxRequests
        /\ call' = [NoCall EXCEPT !.op = "unpair", !.h = h,
                                  !.sentBefore = nsent,
                                  !.pairsBefore = Len(pairs)]
        /\ nsent' = nsent + Len(sends)
        /\ lastReq' = sends[Len(sends)]
        /\ lastReply' = ans.reply
        /\ remoteNs' = IF ans.value = "keep" THEN remoteNs
                       ELSE [remoteNs EXCEPT ![pairs[h].me] = ans.value]
        /\ result' = EvalResult(ans.reply)
        /\ unpaired' = IF EvalResult(ans.reply) = Returned(BoolValue(TRUE))
                       THEN unpaired \cup {h}
                       ELSE unpaired
        /\ fcall' = [NoFcall EXCEPT !.node = pairs[h].me, !.method = "unpair"]
        /\ UNCHANGED <<pairs, pairCalls, open, codec, otherVars>>

\* pairs[h].float(), pairs[h].pwm(pwm_0, pwm_1), ...: the remote side
\* answering ans.
PairOp(h, op, ans) ==
    LET sends == PairOpSendsOf[pairs[h], op]
    IN  /\ nsent < MaxRequests
        /\ call' = [NoCall EXCEPT !.op = "pairop", !.h = h,
                                  !.sentBefore = nsent,
                                  !.pairsBefore = Len(pairs)]
        /\ fcall' = [node |-> pairs[h].me, method |-> op.method,
                     args |-> op.args, kwargs |-> <<>>]
        /\ nsent' = nsent + Len(sends)
        /\ lastReq' = sends[Len(sends)]
        /\ lastReply' = ans.reply
        /\ result' = EvalResult(ans.reply)
        /\ UNCHANGED <<pairs, unpaired, pairCalls, remoteNs, open, codec,
                       otherVars>>

\* hub.close()
Close ==
    LET sends == CloseSends(SelectSeq(pairs, LAMBDA p : \E h \in Live : pairs[h] = p))
    IN  /\ call' = [NoCall EXCEPT !.op = "close", !.sentBefore = nsent,
                                  !.pairsBefore = Len(pairs)]
        /\ fcall' = NoFcall
        /\ nsent' = nsent + Len(sends)
        /\ lastReq' = IF Len(sends) = 0 THEN lastReq ELSE sends[Len(sends)]
        /\ open' = FALSE
        /\ result' = Returned(NoneValue)
        /\ UNCHANGED <<pairs, unpaired, pairCalls, remoteNs, lastReply, codec,
                       otherVars>>

PairCall == \E self \in Motors, other \in Motors :
                \E ans \in IF open THEN PairAnswers ELSE ClosedAnswers :
                    Pair(self, other, ans)

UnpairCall == \E h \in 1..Len(pairs) :
                \E ans \in IF open THEN UnpairAnswers(remoteNs[pairs[h].me])
                            ELSE ClosedAnswers :
                    Unpair(h, ans)

PairOpCall == \E h \in 1..Len(pairs), op \in PairOps :
                \E ans \in IF open THEN PairOpAnswers(remoteNs[pairs[h].me])
                            ELSE ClosedAnswers :
                    PairOp(h, op, ans)

CloseCall == Close

Next == PairCall \/ UnpairCall

Spec == Init /\ [][Next]_vars

\* Pairing together with the other MotorPair operations and Hub.close.
NextPairOps == PairCall \/ UnpairCall \/ PairOpCall \/ CloseCall

SpecPairOps == Init /\ [][NextPairOps]_vars

\* pairs[h].primary() (which = "primary") or pairs[h].secondary(): the
\* Motor node kept in the MotorPair is returned.
Accessor(h, which) ==
    /\ call' = [NoCall EXCEPT !.op = which, !.h = h, !.sentBefore = nsent,
                              !.pairsBefore = Len(pairs)]
    /\ fcall' = [NoFcall EXCEPT !.node = pairs[h].me, !.method = which]
    /\ nsent' = nsent + Len(AccessorSends)
    /\ result' = Returned(NodeValue(MotorText[IF which = "primary"
                                              THEN Primary(pairs[h])
                                              ELSE Secondary(pairs[h])]))
    /\ UNCHANGED <<pairs, unpaired, pairCalls, lastReq, lastReply, remoteNs,
                   open, codec, otherVars>>

PrimaryCall == \E h \in 1..Len(pairs) : Accessor(h, "primary")

SecondaryCall == \E h \in 1..Len(pairs) : Accessor(h, "secondary")

\* The operations on Motor and MotorPair nodes, and Hub.close.
NextNodes ==
    \/ nsent < MaxNodeRequests /\ PairCall
    \/ nsent < MaxNodeRequests /\ UnpairCall
    \/ nsent < MaxNodeRequests /\ PairOpCall
    \/ CloseCall
    \/ PrimaryCall
    \/ SecondaryCall

SpecNodes == Init /\ [][NextNodes]_vars

\* A facade method that forwards through Hub._eval: sends are the requests
\* it hands to the transport, reply the answer to the last of them, res
\* what the method returns or raises.
Forward(op, c, sends, reply, res) ==
    /\ nsent < MaxRequests
    /\ call' = [NoCall EXCEPT !.op = op, !.sentBefore = nsent,
                              !.pairsBefore = Len(pairs)]
    /\ fcall' = c
    /\ nsent' = nsent + Len(sends)
    /\ lastReq' = sends[Len(sends)]
    /\ lastReply' = reply
    /\ result' = res
    /\ UNCHANGED <<pairs, unpaired, pairCalls, remoteNs, open, codec,
                   otherVars>>

\* battery.voltage(), display.pixel(...), motor.run_for_degrees(...), ...
FacadeMethod(c, reply) ==
    Forward("mcall", c, FacadeSendsOf[c], reply, EvalResult(reply))

\* hub.power_off(...)
PowerOff(c, reply) ==
    Forward("power_off", c, PowerOffSendsOf[c], reply, EvalResult(reply))

\* hub.led(...)
Led(c, reply) ==
    Forward("led", c, LedSendsOf[c], reply, LedResult(reply))

\* hub.display.rotation(r)
Rotation(c, reply) ==
    Forward("rotation", c, RotationSendsOf[c], reply, EvalResult(reply))

FacadeMethodCall == \E c \in FacadeCalls, reply \in FacadeAnswers :
                        FacadeMethod(c, reply)

PowerOffCall == \E c \in PowerOffCalls, reply \in FacadeAnswers :
                    PowerOff(c, reply)

LedCall == \E c \in LedCalls, reply \in LedAnswers : Led(c, reply)

RotationCall == \E c \in RotationCalls, reply \in RotationAnswers :
                    Rotation(c, reply)

\* The facade methods that forward one call each.
NextFacade == FacadeMethodCall \/ PowerOffCall \/ LedCall \/ RotationCall

SpecFacade == Init /\ [][NextFacade]_vars

\* A value given to repr, as Hub._call gives each argument.
InitCodec ==
    /\ InitHub
    /\ InitOther
    /\ \E v \in CodecValues : codec = [NoCodec EXCEPT !.phase = "value",
                                                       !.value = v]

\* repr(value)
Render ==
    /\ codec.phase = "value"
    /\ codec' = [codec EXCEPT !.phase = "rendered",
                              !.text = ReprChars(codec.value)]
    /\ UNCHANGED <<pairs, unpaired, pairCalls, nsent, lastReq, lastReply,
                   call, result, remoteNs, open, fcall, otherVars>>

\* eval(text), as Hub._eval reads a reply
Decode ==
    /\ codec.phase = "rendered"
    /\ codec' = [codec EXCEPT !.phase = "decoded",
                              !.result = EvalChars(codec.text)]
    /\ UNCHANGED <<pairs, unpaired, pairCalls, nsent, lastReq, lastReply,
                   call, result, remoteNs, open, fcall, otherVars>>

NextCodec == Render \/ Decode

\* The round trip of a value through repr and eval.
SpecCodec == InitCodec /\ [][NextCodec]_vars

\* comports() has listed its ports; no Hub is constructed yet.
InitDiscover ==
    /\ InitHub
    /\ codec = NoCodec
    /\ img = NoImg /\ conn = NoConn /\ rt = NoRt
    /\ \E l \in PortLists :
           disc = [phase |-> "listed", ports |-> ListedPorts(l),
                   result |-> NoResult]

\* find_device()
FindDevice ==
    /\ disc.phase = "listed"
    /\ disc' = [disc EXCEPT !.phase = "done",
                            !.result = FindDeviceFrom(disc.ports, 1)]
    /\ UNCHANGED <<hubVars, codec, img, conn, rt>>

NextDiscover == FindDevice

\* An Image made of a list of rows.
InitImage ==
    /\ InitHub
    /\ codec = NoCodec
    /\ disc = NoDisc /\ conn = NoConn /\ rt = NoRt
    /\ \E pixels \in ImageValues :
           img = [NoImg EXCEPT !.phase = "made", !.pixels = pixels]

\* image.shift(x, y)
ShiftImage(x, y) ==
    /\ img.phase = "made"
    /\ img' = [img EXCEPT !.phase = "shifted", !.op = "shift",
                          !.x = x, !.y = y,
                          !.out = Shift(img.pixels, x, y)]
    /\ UNCHANGED <<hubVars, codec, disc, conn, rt>>

\* image.shift_left(n), shift_right(n), shift_up(n), shift_down(n)
ShiftImageTowards(op, n) ==
    /\ img.phase = "made"
    /\ img' = [img EXCEPT !.phase = "shifted", !.op = op,
                          !.x = ShiftX(op, n), !.y = ShiftY(op, n),
                          !.out = Shift(img.pixels, ShiftX(op, n),
                                        ShiftY(op, n))]
    /\ UNCHANGED <<hubVars, codec, disc, conn, rt>>

\* repr(image): the row string inside Image(...).
ReprImage ==
    /\ img.phase = "made"
    /\ img' = [img EXCEPT !.phase = "printed", !.op = "repr",
                          !.text = RowString(img.pixels)]
    /\ UNCHANGED <<hubVars, codec, disc, conn, rt>>

\* Image(s) for the row string s that repr gave.
ImageFromString ==
    /\ img.phase = "printed"
    /\ img' = [img EXCEPT !.phase = "parsed", !.op = "Image",
                          !.out = ParseString(img.text)]
    /\ UNCHANGED <<hubVars, codec, disc, conn, rt>>

ShiftCall == \E x \in ShiftValues, y \in ShiftValues : ShiftImage(x, y)

ShiftTowardsCall ==
    \E op \in ShiftDirections, n \in ShiftValues : ShiftImageTowards(op, n)

NextImage == ShiftCall \/ ShiftTowardsCall \/ ReprImage \/ ImageFromString

\* Images, shifted or rendered and read back.
SpecImage == InitImage /\ [][NextImage]_vars

\* No Hub constructed yet.
InitSetup ==
    /\ InitHub
    /\ codec = NoCodec
    /\ disc = NoDisc /\ img = NoImg /\ conn = NoConn /\ rt = NoRt

\* Hub(device), ending as outcome says: the transport calls are made in
\* order up to the one that raises; when all have returned the nodes are
\* created and the Hub is returned.
Construct(outcome) ==
    /\ conn.state \in {"none", "failed"}
    /\ conn' = [state |-> outcome.state,
                calls |-> SubSeq(SetupCalls, 1, outcome.made)]
    /\ UNCHANGED <<hubVars, codec, disc, img, rt>>

ConstructHub == \E outcome \in SetupOutcomes : Construct(outcome)

\* A method of a node of the Hub that Hub.__init__ returned.
NodeCall ==
    /\ conn.state = "ready"
    /\ (FacadeMethodCall \/ PowerOffCall \/ LedCall \/ RotationCall)

NextSetup == ConstructHub \/ NodeCall

\* Construction of a Hub, and the facade calls on it.
SpecSetup == InitSetup /\ [][NextSetup]_vars

\* The caller, having no call in progress, calls a facade method: the
\* method builds its request and hands it to exec_, which writes it to the
\* transport.
Enter(c) ==
    /\ rt.phase = "idle"
    /\ rt.started < MaxRequests
    /\ rt' = [rt EXCEPT !.phase = IF ExecBlocks THEN "waiting" ELSE "idle",
                        !.kind = c.kind,
                        !.req = c.req,
                        !.inflight = rt.inflight + 1,
                        !.started = rt.started + 1,
                        !.result = NoResult]
    /\ UNCHANGED <<hubVars, codec, disc, img, conn>>

\* The transport delivers the reply to a request in flight; exec_, where
\* the caller is held in it, returns the reply.
Answer(reply) ==
    /\ rt.inflight > 0
    /\ rt' = [rt EXCEPT !.phase = IF rt.phase = "waiting" THEN "replied"
                                  ELSE rt.phase,
                        !.inflight = rt.inflight - 1,
                        !.reply = reply]
    /\ UNCHANGED <<hubVars, codec, disc, img, conn>>

\* The method, exec_ having returned, makes its result of the reply and
\* returns to the caller.
Return ==
    /\ rt.phase = "replied"
    /\ rt' = [rt EXCEPT !.phase = "idle",
                        !.result = IF rt.kind = "pair"
                                   THEN PairResult(rt.reply, 1)
                                   ELSE EvalResult(rt.reply)]
    /\ UNCHANGED <<hubVars, codec, disc, img, conn>>

EnterCall == \E c \in RoundTripCalls : Enter(c)

AnswerArrives == \E reply \in RoundTripAnswers : Answer(reply)

NextRoundTrip == EnterCall \/ AnswerArrives \/ Return

\* A single-threaded caller making facade calls one after the other.
SpecRoundTrip == Init /\ [][NextRoundTrip]_vars

SpecDiscover == InitDiscover /\ [][NextDiscover]_vars

---------------------------------------------------------------------------
(* Properties of Motor.pair *)

\* The combined snippet for the motors of ports x and y, written out.
PairText(x, y) ==
    "pair" \o x \o y \o " = hub.port." \o x \o ".motor.pair(hub.port." \o y
        \o ".motor); print(pair" \o x \o y \o ")"

\* C1: every pair call hands exactly one request to the transport, the
\* combined snippet that binds the name to the pair() result and prints
\* it, whatever the reply is.
PairSendsOneRequest ==
    call.op = "pair" =>
        /\ nsent = call.sentBefore + 1
        /\ lastReq = PairText(call.self[3], call.other[3])

\* C1 witness: a pair call answered by an unexpected reply, after an
\* earlier request, has sent its one request.
PairSendsOneRequestWitness ==
    /\ call.op = "pair"
    /\ call.sentBefore = 1
    /\ nsent = 2
    /\ lastReply = Reply("False\r\n")
    /\ result.kind = "raise"

\* C2: when the reply begins with 'MotorPair(', pair returns a new
\* MotorPair whose primary is the motor pair was called on, whose
\* secondary is the motor it was given, and whose name is 'pair' followed
\* by the two port letters, the name the request bound remotely.
PairSuccessReturnsPair ==
    (call.op = "pair" /\ ~lastReply.raised
        /\ StartsWith(lastReply.bytes, "MotorPair(")) =>
        /\ result.kind = "MotorPair"
        /\ result.h = Len(pairs)
        /\ Len(pairs) = call.pairsBefore + 1
        /\ Primary(pairs[result.h]) = call.self
        /\ Secondary(pairs[result.h]) = call.other
        /\ pairs[result.h].me = "pair" \o call.self[3] \o call.other[3]
        /\ lastReq = pairs[result.h].me \o " = " \o PathText(call.self)
               \o ".pair(" \o PathText(call.other) \o "); print("
               \o pairs[result.h].me \o ")"
        /\ remoteNs[pairs[result.h].me] = "live"

\* C2 witness: motor A paired with motor B on reply 'MotorPair(1)'.
PairSuccessReturnsPairWitness ==
    /\ call.op = "pair"
    /\ call.self = MotorPath("A")
    /\ call.other = MotorPath("B")
    /\ lastReply = Reply("MotorPair(1)")
    /\ result.kind = "MotorPair"
    /\ pairs[result.h].me = "pairAB"

\* C3: on the reply 'False' pair returns False as a value: nothing is
\* raised and no MotorPair is created.
PairFalseReturnsFalse ==
    (call.op = "pair" /\ lastReply = Reply("False")) =>
        /\ result = Returned(BoolValue(FALSE))
        /\ Len(pairs) = call.pairsBefore

\* C3 witness: a pair call answered 'False' while a MotorPair exists.
PairFalseReturnsFalseWitness ==
    /\ call.op = "pair"
    /\ lastReply = Reply("False")
    /\ result.kind = "value"
    /\ Len(pairs) = 1

\* C4: on the reply 'None' pair returns None, which is not the False of a
\* rejection: nothing is raised and no MotorPair is created.
PairNoneReturnsNone ==
    (call.op = "pair" /\ lastReply = Reply("None")) =>
        /\ result = Returned(NoneValue)
        /\ result # Returned(BoolValue(FALSE))
        /\ Len(pairs) = call.pairsBefore

\* C4 witness: a pair call answered 'None' while a MotorPair exists.
PairNoneReturnsNoneWitness ==
    /\ call.op = "pair"
    /\ lastReply = Reply("None")
    /\ result.kind = "value"
    /\ result.val = NoneValue
    /\ Len(pairs) = 1

\* C5: a reply that is neither exactly 'False' nor exactly 'None' and
\* does not begin with 'MotorPair(' makes pair raise: no MotorPair is
\* created and no value is returned.
PairOtherReplyRaises ==
    (call.op = "pair" /\ ~lastReply.raised
        /\ lastReply.bytes \notin {"False", "None"}
        /\ ~StartsWith(lastReply.bytes, "MotorPair(")) =>
        /\ result.kind = "raise"
        /\ result.err = "RuntimeError"
        /\ Len(pairs) = call.pairsBefore

\* C5 witness: the reply 'False' followed by a line end is such a reply.
PairOtherReplyRaisesWitness ==
    /\ call.op = "pair"
    /\ lastReply = Reply("False\r\n")
    /\ result = Raised("RuntimeError")
    /\ Len(pairs) = 1

\* C6: pair yields a MotorPair only when the two motors are distinct and
\* neither belonged to a live MotorPair when the call was made.
PairOnlyWhenPreconditionsHold ==
    (call.op = "pair" /\ result.kind = "MotorPair") =>
        /\ call.self # call.other
        /\ ~call.selfInPair
        /\ ~call.otherInPair

\* C7: no two live MotorPair nodes have the same bound name.
LiveNamesDistinct ==
    \A h1 \in Live, h2 \in Live : h1 # h2 => pairs[h1].me # pairs[h2].me

\* C8: the name a pair call chooses is 'pair', the calling motor's port
\* letter, the other motor's port letter, in every state and after every
\* history; pair calls on the same two motors in order choose one name.
PairNameFromLettersAlone ==
    /\ call.op = "pair" =>
           call.name = "pair" \o call.self[3] \o call.other[3]
    /\ \A c \in pairCalls : c.name = "pair" \o c.self[3] \o c.other[3]
    /\ \A c1 \in pairCalls, c2 \in pairCalls :
           (c1.self = c2.self /\ c1.other = c2.other) => c1.name = c2.name

\* C8 witness: motor A is paired with motor B again, after a pair and an
\* unpair, and the call chooses pairAB as before.
PairNameFromLettersAloneWitness ==
    /\ call.op = "pair"
    /\ call.self = MotorPath("A")
    /\ call.other = MotorPath("B")
    /\ call.portsUsedBefore
    /\ unpaired # {}
    /\ call.name = "pairAB"

\* C9 as stated, for pair calls on two distinct motors that are in no
\* live pair: a successful pair call is bound to a name that no earlier
\* successful pair call was bound to.
PairNameNeverReused ==
    (call.op = "pair" /\ result.kind = "MotorPair"
        /\ call.self # call.other /\ ~call.selfInPair /\ ~call.otherInPair) =>
        \A h \in 1..call.pairsBefore : pairs[h].me # call.name

\* C9 amended: the name of a pair call was used by an earlier pair call
\* exactly when an earlier pair call was made on the same two motors in
\* the same order; pair calls on different ordered motors never share a
\* name.
PairNameReusedPerOrderedPorts ==
    /\ call.op = "pair" => (call.nameUsedBefore <=> call.portsUsedBefore)
    /\ \A c1 \in pairCalls, c2 \in pairCalls :
           c1.name = c2.name => (c1.self = c2.self /\ c1.other = c2.other)

\* C9 witness: after a pair/unpair cycle a successful pair call on the
\* same motors reuses the name, with a pair call on other motors between.
PairNameReusedPerOrderedPortsWitness ==
    /\ call.op = "pair"
    /\ result.kind = "MotorPair"
    /\ call.nameUsedBefore
    /\ call.portsUsedBefore
    /\ Len(pairs) = 2
    /\ unpaired = {1}
    /\ pairs[1].me = pairs[2].me

---------------------------------------------------------------------------
(* Properties of MotorPair.unpair *)

\* A remote answer to pair() that creates a pair object.
PairedAnswer == [value |-> "live", reply |-> Reply("MotorPair(1)")]

\* C10: unpair sends the one request print(repr(<bound name>.unpair()));
\* when it returns True the node is no longer live, the remote pair
\* object is freed, and a pair call with either of its motors and any
\* partner can be made and answered with a MotorPair.
UnpairSendsOneCallAndFrees ==
    call.op = "unpair" =>
        /\ nsent = call.sentBefore + 1
        /\ lastReq = "print(repr(" \o pairs[call.h].me \o ".unpair()))"
        /\ result = Returned(BoolValue(TRUE)) =>
              /\ call.h \notin Live
              /\ remoteNs[pairs[call.h].me] = "freed"
              /\ nsent < MaxRequests =>
                    \A m \in {pairs[call.h].primary, pairs[call.h].secondary},
                       o \in Motors :
                        /\ ENABLED Pair(m, o, PairedAnswer)
                        /\ ENABLED Pair(o, m, PairedAnswer)

\* C10 witness: after unpair returned True for a pair of two motors, a
\* later pair call with one of them, both free, returned a MotorPair.
UnpairSendsOneCallAndFreesWitness ==
    /\ call.op = "pair"
    /\ result.kind = "MotorPair"
    /\ call.self # call.other
    /\ ~call.selfInPair
    /\ ~call.otherInPair
    /\ \E h \in unpaired :
          /\ pairs[h].primary # pairs[h].secondary
          /\ call.self \in {pairs[h].primary, pairs[h].secondary}

---------------------------------------------------------------------------
(* Properties of a MotorPair after unpair, and of Hub.close *)

\* Some live MotorPair node couples the two motors of pairs[h].
PairedAgain(h) ==
    \E g \in Live :
        {pairs[g].primary, pairs[g].secondary} =
            {pairs[h].primary, pairs[h].secondary}

\* The call text of a modelled MotorPair operation, written out.
PairOpText(method) == IF method = "float" THEN "float()" ELSE "pwm(5, -5)"

\* C11 as stated: a call on a MotorPair whose unpair() returned True, the
\* motors not paired again, raises.
UnpairedNodeCallsRaise ==
    (call.op = "pairop" /\ call.h \in unpaired /\ ~PairedAgain(call.h)) =>
        result.kind = "raise"

\* C11 amended: a call on a MotorPair whose unpair() returned True is
\* still forwarded, as one request against the same bound name, and ends
\* as the reply says: it returns None on the reply 'None' and raises when
\* the transport raises.
UnpairedNodeCallsForwarded ==
    (call.op = "pairop" /\ call.h \in unpaired) =>
        /\ nsent = call.sentBefore + 1
        /\ lastReq = "print(repr(" \o pairs[call.h].me \o "."
               \o PairOpText(fcall.method) \o "))"
        /\ lastReply = Reply("None") => result = Returned(NoneValue)
        /\ lastReply.raised => result = Raised("PyboardError")

\* C11 witness: float() on a MotorPair after its unpair() returned True,
\* the motors not paired again, returned None.
UnpairedNodeCallsForwardedWitness ==
    /\ call.op = "pairop"
    /\ call.h \in unpaired
    /\ ~PairedAgain(call.h)
    /\ open
    /\ fcall.method = "float"
    /\ remoteNs[pairs[call.h].me] = "freed"
    /\ result = Returned(NoneValue)

\* C12: Hub.close hands no request to the transport and leaves the remote
\* bindings, the MotorPair nodes and the record of unpaired nodes as they
\* are: a pair still paired stays paired remotely.
CloseSendsNoUnpair ==
    [][call'.op = "close" =>
          /\ nsent' = nsent
          /\ lastReq' = lastReq
          /\ remoteNs' = remoteNs
          /\ pairs' = pairs
          /\ unpaired' = unpaired]_vars

\* C12 witness: the hub was closed while a MotorPair was paired, and the
\* remote pair object is still live.
CloseSendsNoUnpairWitness ==
    /\ call.op = "close"
    /\ ~open
    /\ nsent = call.sentBefore
    /\ \E h \in Live : remoteNs[pairs[h].me] = "live"

---------------------------------------------------------------------------
(* Properties of the call/eval bridge *)

\* The facade methods that forward one call through Hub._eval.
ForwardOps == {"mcall", "power_off", "led", "rotation"}

\* A reply text that is no literal.
NoLiteral == "<Motor object at 20004d80>"

RECURSIVE ArgListText(_, _)
\* The argument list 'pos1, pos2, ..., key1=val1, ...' written out from
\* left to right.
ArgListText(args, kwargs) ==
    IF Len(args) > 0
    THEN Repr(Head(args))
             \o (IF Len(args) + Len(kwargs) > 1 THEN ", " ELSE "")
             \o ArgListText(Tail(args), kwargs)
    ELSE IF Len(kwargs) > 0
    THEN Head(kwargs)[1] \o "=" \o Repr(Head(kwargs)[2])
             \o (IF Len(kwargs) > 1 THEN ", " ELSE "")
             \o ArgListText(<<>>, Tail(kwargs))
    ELSE ""

\* The request for 'path.method(<arguments>)' of the last forwarded call.
PathMethodRequest ==
    "print(repr(" \o fcall.node \o "." \o fcall.method \o "("
        \o ArgListText(fcall.args, fcall.kwargs) \o ")))"

\* C13: every facade method call on node p with method m sends
\* 'print(repr(p.m(<arguments>)))' and returns the decoded reply: 8294 on
\* the reply '8294', None on the reply 'None'.
FacadeCallSendsPathMethod ==
    call.op \in ForwardOps =>
        /\ lastReq = PathMethodRequest
        /\ lastReply = Reply("8294") => result = Returned(IntValue(8294))
        /\ lastReply = Reply("None") => result = Returned(NoneValue)

\* C14: each call through Hub._eval hands exactly one request to the
\* transport, whether it returns or raises.
EvalSendsOneRequest ==
    call.op \in ForwardOps => nsent = call.sentBefore + 1

\* C14 witness: a facade method call raised after the transport raised,
\* one request sent.
EvalSendsOneRequestWitness ==
    /\ call.op = "mcall"
    /\ lastReply.raised
    /\ result.kind = "raise"
    /\ nsent = call.sentBefore + 1

FailureRaisedInSameCall ==
    (call.op \in ForwardOps
        /\ (lastReply.raised \/ lastReply = Reply(NoLiteral))) =>
        /\ result.kind = "raise"
        /\ nsent = call.sentBefore + 1

\* C16 witness: hub.led(...) raised after the transport raised.
FailureRaisedInSameCallWitness ==
    /\ call.op = "led"
    /\ lastReply.raised
    /\ result = Raised("PyboardError")
    /\ nsent = call.sentBefore + 1

\* C17: the expression built for a path, a method and arguments is
\* 'path.method(pos1, pos2, ..., key1=val1, ...)': positional arguments in
\* the order given, then keyword arguments in the order given, separated
\* by ', '.
BuiltExpressionExact ==
    call.op \in {"mcall", "power_off", "led"} =>
        /\ lastReq = PathMethodRequest
        /\ (fcall.method = "run_for_degrees" /\ fcall.node = "hub.port.A.motor"
                /\ fcall.kwargs[1][1] = "stop") =>
               lastReq = "print(repr(hub.port.A.motor.run_for_degrees("
                             \o "90, 50, stop=1, acceleration=100)))"
        /\ (fcall.method = "run_for_degrees" /\ fcall.node = "hub.port.A.motor"
                /\ fcall.kwargs[1][1] = "acceleration") =>
               lastReq = "print(repr(hub.port.A.motor.run_for_degrees("
                             \o "90, 50, acceleration=100, stop=1)))"
        /\ (fcall.method = "power_off" /\ Len(fcall.kwargs) = 2) =>
               lastReq = "print(repr(hub.power_off(fast=True, restart=False)))"
        /\ (fcall.method = "led" /\ Len(fcall.args) = 3) =>
               lastReq = "print(repr(hub.led(255, 0, 9)))"

\* C17 witness: run_for_degrees(90, 50, stop=1, acceleration=100) was
\* called on a motor.
BuiltExpressionExactWitness ==
    /\ call.op = "mcall"
    /\ fcall.method = "run_for_degrees"
    /\ Len(fcall.args) = 2
    /\ Len(fcall.kwargs) = 2
    /\ fcall.kwargs[1][1] = "stop"
    /\ lastReq = "print(repr(hub.port.A.motor.run_for_degrees("
                     \o "90, 50, stop=1, acceleration=100)))"

\* The last forwarded call was given a facade node as an argument.
NodeArgument == \E i \in 1..Len(fcall.args) : fcall.args[i].t = "node"

\* C19 as stated: a call given a facade node as an argument is an error;
\* no request with the node's path in it is sent.
NodeArgumentIsError ==
    (call.op = "mcall" /\ NodeArgument) =>
        /\ result.kind = "raise"
        /\ nsent = call.sentBefore

\* C19 amended: a call given a Motor node as an argument is built and
\* sent like any other, with the node's path as the text of the argument,
\* and returns what the reply decodes to.
NodeArgumentEmbedsPath ==
    (call.op = "mcall" /\ NodeArgument) =>
        /\ nsent = call.sentBefore + 1
        /\ lastReq = "print(repr(" \o fcall.node \o "." \o fcall.method
               \o "(" \o fcall.args[1].me \o ")))"
        /\ lastReply = Reply("None") => result = Returned(NoneValue)

\* C19 witness: motor.pwm(<Motor node>) was sent with the node's path as
\* the argument and returned None.
NodeArgumentEmbedsPathWitness ==
    /\ call.op = "mcall"
    /\ NodeArgument
    /\ lastReq = "print(repr(hub.port.A.motor.pwm(hub.port.B.motor)))"
    /\ result = Returned(NoneValue)

\* C20: Display.rotation(r) sends 'print(repr(hub.display.rotation(r)))'.
RotationSendsRotationCall ==
    call.op = "rotation" =>
        lastReq = "print(repr(hub.display.rotation("
                      \o Repr(fcall.args[1]) \o ")))"

---------------------------------------------------------------------------
(* Properties of the literal codec *)

\* C18: for every value, eval of the text repr gives for it returns an
\* equal value.
CodecRoundTrips ==
    codec.phase = "decoded" => codec.result = Returned(codec.value)

---------------------------------------------------------------------------
(* Properties of find_device *)

\* The positions of the listed ports whose vid and pid both are the fixed
\* ones.
Matching ==
    {i \in 1..Len(disc.ports) :
        disc.ports[i].vid = USB_VID /\ disc.ports[i].pid = USB_PID}

\* C21: find_device returns the device of the first listed port whose vid
\* and pid both equal the fixed pair, and raises exactly when no listed
\* port matches.
FindDeviceFirstMatch ==
    disc.phase = "done" =>
        /\ disc.result.kind = "raise" <=> Matching = {}
        /\ Matching = {} => disc.result = Raised("RuntimeError")
        /\ \A i \in Matching :
               (\A j \in Matching : i <= j) =>
                   disc.result = Returned(DeviceNames[i])

\* C21 witness: two ports match, a port that does not match is listed
\* before them, and the device of the first match was returned.
FindDeviceFirstMatchWitness ==
    /\ disc.phase = "done"
    /\ Matching = {2, 3}
    /\ disc.ports[1].vid = USB_VID
    /\ disc.result = Returned("/dev/ttyACM1")

---------------------------------------------------------------------------
(* Properties of the round trip *)

\* C22: at most one request is in flight at any time, and a facade call
\* has returned only when no request is in flight: its own round trip is
\* over and nothing was started besides.
OneRequestInFlight ==
    /\ rt.inflight <= 1
    /\ rt.phase \in {"idle", "replied"} => rt.inflight = 0
    /\ rt.phase = "waiting" => rt.inflight = 1

\* C22 witness: a second call has its request in flight after the first
\* call has returned.
OneRequestInFlightWitness ==
    /\ rt.phase = "waiting"
    /\ rt.started = 2
    /\ rt.inflight = 1

---------------------------------------------------------------------------
(* Properties of the facade nodes *)

\* C23: no operation (pair, unpair, another MotorPair call, close; returned
\* or raised) changes a node: every MotorPair keeps the bound name, primary
\* and secondary it was created with, and its place among the nodes.
NodesNeverMutated ==
    [][\A h \in 1..Len(pairs) :
           /\ h <= Len(pairs')
           /\ pairs'[h] = pairs[h]]_vars

\* C23 witness: a MotorPair that was unpaired, and on which a later call
\* raised, is as Motor.pair created it.
NodesNeverMutatedWitness ==
    /\ call.op = "pairop"
    /\ call.h = 1
    /\ 1 \in unpaired
    /\ result.kind = "raise"
    /\ pairs[1] = [me |-> "pairAB", primary |-> <<"hub", "port", "A", "motor">>,
                   secondary |-> <<"hub", "port", "B", "motor">>]

\* C24 as stated: after Hub.close() no call on a node returns a value; each
\* raises.
CallAfterCloseRaises ==
    (~open /\ call.op \notin {"none", "close"}) => result.kind = "raise"

\* C24 amended: after Hub.close() every call on a node that hands a
\* request to the transport (pair, unpair, the other MotorPair operations)
\* raises; primary() and secondary(), which hand it none, still return
\* their Motor node.
CallAfterCloseRaisesIfSent ==
    (~open /\ call.op \notin {"none", "close"}) =>
        IF call.op \in {"primary", "secondary"}
        THEN result.kind = "value" /\ nsent = call.sentBefore
        ELSE result.kind = "raise" /\ nsent = call.sentBefore + 1

\* C24 witness: after close, unpair() on a MotorPair that is still paired
\* raised.
CallAfterCloseRaisesIfSentWitness ==
    /\ ~open
    /\ call.op = "unpair"
    /\ call.h \in Live
    /\ remoteNs[pairs[call.h].me] = "live"
    /\ result.kind = "raise"

\* C27: primary() and secondary() hand no request to the transport and
\* return the Motor node the pair call was made on, and the one it was
\* given, also after unpair.
AccessorsReturnPairMotors ==
    call.op \in {"primary", "secondary"} =>
        /\ nsent = call.sentBefore
        /\ \A c \in pairCalls :
               c.name = pairs[call.h].me =>
                   result = Returned(NodeValue(PathText(
                                IF call.op = "primary" THEN c.self
                                ELSE c.other)))

\* C27 witness: after unpair() returned True, secondary() returned the
\* motor of port B that pair was given.
AccessorsReturnPairMotorsWitness ==
    /\ call.op = "secondary"
    /\ call.h \in unpaired
    /\ pairs[call.h].me = "pairAB"
    /\ nsent = call.sentBefore
    /\ result = Returned(NodeValue("hub.port.B.motor"))

\* C25: a pair call that returns no MotorPair (False, None, or an
\* exception) leaves the remote binding of every live MotorPair's name as
\* it was (stated for the MotorPairs of two different motors).
FailedPairKeepsLiveBindings ==
    [][(call'.op = "pair" /\ result'.kind # "MotorPair") =>
          \A h \in Live :
              pairs[h].primary # pairs[h].secondary =>
                  remoteNs'[pairs[h].me] = remoteNs[pairs[h].me]]_vars

---------------------------------------------------------------------------
(* Properties of the naming rule *)

\* The Motor nodes of all the ports a Ports node creates, A to F.
AllMotors == {MotorPath(PortLetters[i]) : i \in 1..Len(PortLetters)}

\* The naming rule gives two ordered pairs of the motors of ports A to F
\* the same name only if they are the same ordered pair.
PairNameInjectiveOnAllPorts ==
    \A a \in AllMotors, b \in AllMotors, c \in AllMotors, d \in AllMotors :
        PairName(a, b) = PairName(c, d) => (a = c /\ b = d)

\* C26: two pair calls chose the same bound name only if they had the same
\* calling motor and the same other motor, and so it is for all the motors
\* of ports A to F; pair(A, B) and pair(B, A) choose different names.
PairNameInjective ==
    /\ \A c1 \in pairCalls, c2 \in pairCalls :
           c1.name = c2.name => (c1.self = c2.self /\ c1.other = c2.other)
    /\ PairNameInjectiveOnAllPorts

\* C26 witness: pair was called on the motors of two ports in both orders,
\* and the two calls chose different names.
PairNameInjectiveWitness ==
    \E c1 \in pairCalls, c2 \in pairCalls :
        /\ c1.self # c1.other
        /\ c2.self = c1.other
        /\ c2.other = c1.self
        /\ c1.name = "pairAB"
        /\ c2.name = "pairBA"

---------------------------------------------------------------------------
(* Properties of Hub.__init__ *)

\* C28: the transport calls of Hub.__init__ are made in the order open,
\* raw input mode, import; a facade request has been sent only when all
\* three have been made, the import last.
SetupBeforeRequests ==
    /\ Len(conn.calls) >= 1 => conn.calls[1] = "Pyboard(device)"
    /\ Len(conn.calls) >= 2 => conn.calls[2] = "enter_raw_repl()"
    /\ Len(conn.calls) >= 3 =>
           conn.calls[3] = "exec_('import hub; Image = hub.Image; import os')"
    /\ (nsent > 0 \/ call.op # "none") =>
           (conn.state = "ready" /\ Len(conn.calls) = 3)

\* C28 witness: the first facade request was sent on a Hub constructed at
\* the second attempt.
SetupBeforeRequestsWitness ==
    /\ nsent = 1
    /\ call.op = "mcall"
    /\ conn.state = "ready"
    /\ conn.calls[3] = "exec_('import hub; Image = hub.Image; import os')"

---------------------------------------------------------------------------
(* Properties of Image *)

\* The position (x, y), counted from 0, lies inside the pixels.
InsidePixels(pixels, x, y) ==
    /\ 0 <= y /\ y < Len(pixels)
    /\ 0 <= x /\ x < Len(pixels[y + 1])

\* C29: a shift returns an image of the height and the width of the source
\* whose pixel (x0, y0) is the source pixel (x0 + x, y0 + y) where the
\* source has one and 0 elsewhere, and shift(0, 0) returns an image equal
\* to the source (whose pixels no shift assigns to).
ShiftReturnsShiftedImage ==
    img.phase = "shifted" =>
        /\ img.out.kind = "image"
        /\ Len(img.out.pixels) = Len(img.pixels)
        /\ \A r \in 1..Len(img.out.pixels) :
               /\ Len(img.out.pixels[r]) = Len(img.pixels[1])
               /\ \A c \in 1..Len(img.out.pixels[r]) :
                      img.out.pixels[r][c] =
                          IF InsidePixels(img.pixels, c - 1 + img.x,
                                          r - 1 + img.y)
                          THEN img.pixels[r + img.y][c + img.x]
                          ELSE 0
        /\ (img.x = 0 /\ img.y = 0) => img.out.pixels = img.pixels

\* The pixels have a row, and every row has the same number of pixels,
\* at least one.
NonEmptyRectangular(pixels) ==
    /\ Len(pixels) > 0
    /\ Len(pixels[1]) > 0
    /\ \A r \in 1..Len(pixels) : Len(pixels[r]) = Len(pixels[1])

\* C30: the Image made of the row string of the repr of a non-empty
\* rectangular image of digits 0 to 9 is equal to that image.
ImageTextRoundTrips ==
    (img.phase = "parsed" /\ NonEmptyRectangular(img.pixels)) =>
        /\ img.out.kind = "image"
        /\ img.out.pixels = img.pixels

\* C30 witness: an image of two rows of two different pixels each was
\* rendered and read back.
ImageTextRoundTripsWitness ==
    /\ img.phase = "parsed"
    /\ img.pixels = <<(<<0, 9>>), (<<9, 0>>)>>
    /\ img.text = <<"0", "9", ":", "9", "0", ":">>
    /\ img.out.kind = "image"

====
